---- MODULE Spec2Model ----
(***************************************************************************)
(* Session/Role context of the Travonex blog (AuthProvider / useAuth).     *)
(*                                                                         *)
(* Two implementations of the provider live in the repository:            *)
(*   "hook" : src/src/hooks/use-auth.tsx                                   *)
(*   "ctx"  : src/unnamed/part_001 (adds firebaseUser, googleSignIn with   *)
(*            its own lookup-then-create, and updateUser)                  *)
(* The variable impl selects which one a behaviour runs; it never changes. *)
(* (The copy in src/src/components/blog/newsletter-signup.tsx, lines       *)
(* 477-569, is "ctx" without firebaseUser and updateUser.)                 *)
(*                                                                         *)
(* Every `await` of the source is one step of the model: the awaited call  *)
(* takes effect (or rejects) and the code up to the next await runs.  The  *)
(* state updates React batches in one continuation are one assignment.     *)
(* Calls to the identity provider, the document store and blob storage     *)
(* that are in flight together complete in any order.                      *)
(***************************************************************************)
EXTENDS Integers, Sequences, FiniteSets, TLC

\* ---------------------------------------------------------------- bounds
MaxEvents == 3          \* session-stream events delivered in one behaviour
MaxToasts == 3          \* toasts created by toast() in one behaviour

\* ------------------------------------------------------------- constants
Uids == {"u1", "u2"}
NoUser == "null"
Roles == {"user", "editor", "admin"}
NoRole == "null"
NoDoc == [exists |-> FALSE]
NoName == "null"
Names == {"Jane"}
GoogleName == "GName"
OpIds == {"o1", "o2"}
Impls == {"hook", "ctx"}

EmailOf(u) == IF u = "u1" THEN "u1@x.com" ELSE "u2@x.com"

\* a document of the 'users' collection
\* (name, email, role, avatar; username and bio are merged by updateUser
\* exactly as name is and are not modelled separately)
NoUrl == "null"
UserDoc(n, e, r) ==
  [exists |-> TRUE, name |-> n, email |-> e, role |-> r, avatar |-> NoUrl]

\* the download URL blob storage gives for avatars/<uid>
AvatarUrl(u) == "avatars/" \o u

\* JavaScript `a || b` on a possibly-null string
OrElse(a, b) == IF a = NoName \/ a = "" THEN b ELSE a

\* the Session `user` object: identity id and the name it carries; an object
\* built by spreading a null user has no uid
NoUid == "undefined"
NullUser == [isNull |-> TRUE, uid |-> NoUid, name |-> NoName]
UserObj(u, n) == [isNull |-> FALSE, uid |-> u, name |-> n]

Idle == [kind |-> "idle", pc |-> "idle", uid |-> NoUser, name |-> NoName,
         doc |-> NoDoc, cap |-> NullUser, avatar |-> FALSE, url |-> NoUrl,
         role |-> NoRole, since |-> 0]

VARIABLES
  impl,          \* which AuthProvider runs
  store,         \* Firestore 'users' collection: uid -> document
  registered,    \* identities that exist at the identity provider
  displayName,   \* identity provider profile: uid -> displayName
  photoURL,      \* identity provider profile: uid -> photoURL
  blobs,         \* blob storage: uids whose avatars/<uid> object exists
  authUser,      \* identity provider's current user (auth.currentUser)
  user,          \* useState user
  firebaseUser,  \* useState firebaseUser (ctx only)
  userRole,      \* useState userRole
  loading,       \* useState loading
  lis,           \* in-flight invocations of the onAuthStateChanged callback
  evCount,       \* number of session-stream events delivered so far
  ops,           \* in-flight operations of the context, one per caller slot
  returned,      \* how an operation settled in the step just taken, if one did
  route,         \* last client-side navigation issued by router.push
  setBy,         \* history: the stream event whose callback last assigned the
                 \* Session (0 when an operation assigned it last, or nothing)
  signedUp,      \* history: [uid, name] of every signup that resolved
  page,          \* the /blog/admin/<page> route the browser is on, if any
  guardSeen,     \* AdminLayout: dependencies at the route guard's last run
  loaded,        \* admin child page: its mount-time fetch has resolved
  content,       \* document store: the status of a post, a comment, a story
  modCall,       \* the moderation call of an admin page that is in flight
  mounted,       \* the AuthProvider is mounted
  subs,          \* open subscriptions to the provider's session stream
  form,          \* the form page that is mounted: login, signup or profile
  isLoading,     \* the form's useState isLoading
  awaiting,      \* handler invocations of the form awaiting their operation
  formError,     \* the form shows an error (setError / the error toast)
  shown,         \* public pages: the kinds whose item is in the fetched list
  moderated,     \* history: the kinds whose item a moderation write set
                 \* approved or published
  editPost,      \* EditPostPage: useState post, the status it was loaded with
  author,        \* document store: author_id of the post
  memoryState,   \* toast store: the toasts, newest first
  count,         \* toast store: the counter of genId
  listeners,     \* toast store: the registered listeners
  seen           \* the state each listener was last called with

\* state of the views that consume the context
adminVars == <<page, guardSeen, loaded>>
modVars == <<content, modCall>>
mountVars == <<mounted, subs>>
formVars == <<form, isLoading, awaiting, formError>>
pubVars == <<shown, moderated, editPost, author>>
toastVars == <<memoryState, count, listeners, seen>>
sideVars == <<pubVars, toastVars>>
viewVars == <<adminVars, modVars, mountVars, formVars, sideVars>>

\* state of the context, except what a step returns and the route
ctxVars == <<impl, store, registered, displayName, photoURL, blobs, authUser,
            user, firebaseUser, userRole, loading, lis, evCount, ops, setBy,
            signedUp>>

vars == <<impl, store, registered, displayName, photoURL, blobs, authUser,
          user, firebaseUser, userRole, loading, lis, evCount, ops, returned,
          route, setBy, signedUp, viewVars>>

NoReturn == [kind |-> "none", result |-> "none", uid |-> NoUser]

\* no admin route is open; the route guard has not run since the layout mounted
NoPage == "none"
NoDeps == [ran |-> FALSE, user |-> NullUser, role |-> NoRole]

\* moderated content: one post, one comment and one follow-up story
Kinds == {"post", "comment", "story"}
NoCall == [op |-> "none", kind |-> "none", status |-> "none", role |-> NoRole]

\* EditPostPage has no post loaded and no save in flight
NoPost == [status |-> "none", write |-> "none"]

\* the components that call useToast
ListenerIds == {"l1", "l2"}
Settled(k, r, u) == [kind |-> k, result |-> r, uid |-> u]

Init ==
  /\ impl \in Impls
  /\ \E r \in {"editor", "admin"} :
       store = [u \in Uids |-> IF u = "u2" THEN UserDoc("Ann", EmailOf(u), r)
                                ELSE NoDoc]
  /\ registered = {"u2"}
  /\ displayName = [u \in Uids |-> IF u = "u2" THEN "Ann" ELSE NoName]
  /\ photoURL = [u \in Uids |-> NoUrl]
  /\ blobs = {}
  /\ authUser \in {NoUser, "u2"}
  /\ user = NullUser
  /\ firebaseUser = NoUser
  /\ userRole = NoRole
  /\ loading = TRUE
  /\ lis = {}
  /\ evCount = 0
  /\ ops = [o \in OpIds |-> Idle]
  /\ returned = NoReturn
  /\ route = "/"
  /\ setBy = 0
  /\ signedUp = {}
  /\ page = NoPage
  /\ guardSeen = NoDeps
  /\ loaded = FALSE
  /\ content = [k \in Kinds |-> "pending"]
  /\ modCall = NoCall
  /\ mounted = TRUE
  /\ subs = 1
  /\ form = NoPage
  /\ isLoading = FALSE
  /\ awaiting = 0
  /\ formError = FALSE
  /\ shown = [k \in Kinds |-> FALSE]
  /\ moderated = {}
  /\ editPost = NoPost
  /\ author = "u2"
  /\ memoryState = <<>>
  /\ count = 0
  /\ listeners = {}
  /\ seen = [l \in ListenerIds |-> <<>>]

\* ------------------------------------------------- the session stream
\* The synchronous part of the onAuthStateChanged callback for the event
\* carrying u: everything up to its first await (or to its end for null).
onAuthStateChanged(u) ==
  /\ evCount' = evCount + 1
  /\ IF u # NoUser
       THEN /\ firebaseUser' = IF impl = "ctx" THEN u ELSE firebaseUser
            /\ lis' = lis \cup {[ev |-> evCount + 1, uid |-> u,
                                 pc |-> "getDoc", doc |-> NoDoc]}
            /\ UNCHANGED <<user, userRole, loading, setBy>>
       ELSE /\ firebaseUser' = NoUser
            /\ user' = NullUser
            /\ userRole' = NoRole
            /\ loading' = FALSE
            /\ setBy' = evCount + 1
            /\ UNCHANGED lis

\* The provider changes its current user to u; the stream yields an event
\* when the identity differs from the one it last reported.
SetCurrentUser(u) ==
  /\ authUser' = u
  /\ IF u # authUser
       THEN evCount < MaxEvents /\ onAuthStateChanged(u)
       ELSE UNCHANGED <<user, firebaseUser, userRole, loading, lis, evCount,
                        setBy>>

\* The first event after subscribing reports the persisted current user.
InitialEvent ==
  /\ evCount = 0
  /\ onAuthStateChanged(authUser)
  /\ UNCHANGED <<signedUp, impl, viewVars, store, registered, displayName,
                 photoURL, blobs, authUser, ops, route>>
  /\ returned' = NoReturn

\* the document the callback creates when the lookup finds none
ListenerNewUser(u) ==
  IF impl = "ctx"
    THEN UserDoc(OrElse(displayName[u], OrElse(EmailOf(u), "")),
                 OrElse(EmailOf(u), ""), "user")
    ELSE UserDoc(displayName[u], EmailOf(u), "user")

\* the Session user the callback sets
ListenerUser(u, d) ==
  IF impl = "ctx" THEN UserObj(u, d.name) ELSE UserObj(u, displayName[u])

\* ListenerGetDoc as the integration guide's snippet has it: when the lookup
\* finds no document nothing is written and no role is set, the user is set
ListenerGetDoc_NoCreate ==
  \E i \in lis :
    /\ i.pc = "getDoc"
    /\ user' = ListenerUser(i.uid, ListenerNewUser(i.uid))
    /\ userRole' = IF store[i.uid].exists THEN store[i.uid].role ELSE userRole
    /\ loading' = FALSE
    /\ setBy' = i.ev
    /\ lis' = lis \ {i}
    /\ UNCHANGED <<signedUp, impl, viewVars, store, registered, displayName,
                   photoURL, blobs, authUser, firebaseUser, evCount, ops,
                   route>>
    /\ returned' = NoReturn

\* `await getDoc(userDocRef)` of the callback resolves
ListenerGetDoc ==
  \E i \in lis :
    /\ i.pc = "getDoc"
    /\ IF store[i.uid].exists
         THEN /\ user' = ListenerUser(i.uid, store[i.uid])
              /\ userRole' = store[i.uid].role
              /\ loading' = FALSE
              /\ setBy' = i.ev
              /\ lis' = lis \ {i}
         ELSE /\ lis' = (lis \ {i}) \cup
                        {[i EXCEPT !.pc = "setDoc",
                                   !.doc = ListenerNewUser(i.uid)]}
              /\ UNCHANGED <<user, userRole, loading, setBy>>
    /\ UNCHANGED <<signedUp, impl, viewVars, store, registered, displayName,
                   photoURL, blobs, authUser, firebaseUser, evCount, ops,
                   route>>
    /\ returned' = NoReturn

\* ListenerSetDoc with the write dropped: the Session is set, no document
ListenerSetDoc_NoWrite ==
  \E i \in lis :
    /\ i.pc = "setDoc"
    /\ user' = ListenerUser(i.uid, i.doc)
    /\ userRole' = "user"
    /\ loading' = FALSE
    /\ setBy' = i.ev
    /\ lis' = lis \ {i}
    /\ UNCHANGED <<signedUp, impl, viewVars, store, registered, displayName,
                   photoURL, blobs, authUser, firebaseUser, evCount, ops,
                   route>>
    /\ returned' = NoReturn

\* `await setDoc(userDocRef, newUser)` of the callback resolves
ListenerSetDoc ==
  \E i \in lis :
    /\ i.pc = "setDoc"
    /\ store' = [store EXCEPT ![i.uid] = i.doc]
    /\ user' = ListenerUser(i.uid, i.doc)
    /\ userRole' = "user"
    /\ loading' = FALSE
    /\ setBy' = i.ev
    /\ lis' = lis \ {i}
    /\ UNCHANGED <<signedUp, impl, viewVars, registered, displayName, photoURL,
                   blobs, authUser, firebaseUser, evCount, ops, route>>
    /\ returned' = NoReturn

\* ------------------------------------------------------- operations
\* Children (and so every caller of useAuth) render only when !loading.
CanCall(o) ==
  /\ ~loading
  /\ ops[o].kind = "idle"
  /\ o = "o2" => ops["o1"].kind # "idle"

\* The pages disable their submit controls while a call is outstanding, so
\* one caller at a time is the normal case; Next runs it.  NextConcurrent
\* (below) lets two federated sign-ins run concurrently.
Callers == {"o1"}

Start(o, k, u, n) ==
  ops' = [ops EXCEPT ![o] = [Idle EXCEPT !.kind = k, !.pc = "call",
                                          !.uid = u, !.name = n,
                                          !.since = evCount]]

\* the operation in slot o settles; the slots stay packed from o1
Finish(o, r) ==
  /\ ops' = IF o = "o1" THEN [ops EXCEPT !["o1"] = ops["o2"], !["o2"] = Idle]
                        ELSE [ops EXCEPT ![o] = Idle]
  /\ returned' = Settled(ops[o].kind, r, ops[o].uid)

\* login(email, password) is called
LoginBegin(o) ==
  \E u \in Uids :
    /\ CanCall(o)
    /\ Start(o, "login", u, NoName)
    /\ UNCHANGED <<signedUp, setBy, impl, adminVars, modVars, sideVars, mountVars, store,
                   registered, displayName, photoURL, blobs, authUser, user,
                   firebaseUser, userRole, loading, lis, evCount, route>>
    /\ returned' = NoReturn

\* login is called by a caller that is not one of the forms below
LoginCall(o) == LoginBegin(o) /\ UNCHANGED formVars

\* signInWithEmailAndPassword resolves
LoginOk(o) ==
  /\ ops[o].kind = "login" /\ ops[o].pc = "call"
  /\ ops[o].uid \in registered
  /\ SetCurrentUser(ops[o].uid)
  /\ Finish(o, "ok")
  /\ UNCHANGED <<signedUp, impl, viewVars, store, registered, displayName,
                 photoURL, blobs, route>>

\* signInWithEmailAndPassword rejects (unknown identity or wrong password)
LoginFail(o) ==
  /\ ops[o].kind = "login" /\ ops[o].pc = "call"
  /\ Finish(o, "error")
  /\ UNCHANGED <<signedUp, setBy, impl, viewVars, store, registered,
                 displayName, photoURL, blobs, authUser, user, firebaseUser,
                 userRole, loading, lis, evCount, route>>

\* logout() is called
LogoutCall(o) ==
  /\ CanCall(o)
  /\ Start(o, "logout", NoUser, NoName)
  /\ UNCHANGED <<signedUp, setBy, impl, viewVars, store, registered,
                 displayName, photoURL, blobs, authUser, user, firebaseUser,
                 userRole, loading, lis, evCount, route>>
  /\ returned' = NoReturn

\* signOut(auth) resolves, then router.push('/login')
LogoutOk(o) ==
  /\ ops[o].kind = "logout" /\ ops[o].pc = "call"
  /\ SetCurrentUser(NoUser)
  /\ route' = "/login"
  /\ Finish(o, "ok")
  /\ UNCHANGED <<signedUp, impl, viewVars, store, registered, displayName,
                 photoURL, blobs>>

\* signOut(auth) rejects: logout has no try/catch, so it rejects too
LogoutFail(o) ==
  /\ ops[o].kind = "logout" /\ ops[o].pc = "call"
  /\ Finish(o, "error")
  /\ UNCHANGED <<signedUp, setBy, impl, viewVars, store, registered,
                 displayName, photoURL, blobs, authUser, user, firebaseUser,
                 userRole, loading, lis, evCount, route>>

\* ---- signup(email, password, displayName)
SignupBegin(o) ==
  \E u \in Uids, n \in Names :
    /\ CanCall(o)
    /\ Start(o, "signup", u, n)
    /\ UNCHANGED <<signedUp, setBy, impl, adminVars, modVars, sideVars, mountVars, store,
                   registered, displayName, photoURL, blobs, authUser, user,
                   firebaseUser, userRole, loading, lis, evCount, route>>
    /\ returned' = NoReturn

\* signup is called by a caller that is not one of the forms below
SignupCall(o) == SignupBegin(o) /\ UNCHANGED formVars

\* createUserWithEmailAndPassword resolves: a new identity, signed in
SignupCreate(o) ==
  /\ ops[o].kind = "signup" /\ ops[o].pc = "call"
  /\ ops[o].uid \notin registered
  /\ registered' = registered \cup {ops[o].uid}
  /\ SetCurrentUser(ops[o].uid)
  /\ ops' = [ops EXCEPT ![o].pc = "updateProfile"]
  /\ UNCHANGED <<signedUp, impl, viewVars, store, displayName, photoURL, blobs,
                 route>>
  /\ returned' = NoReturn

\* the document signup writes
SignupNewUser(u, n) == UserDoc(n, EmailOf(u), "user")

\* updateProfile(userCredential.user, {displayName}) resolves
SignupUpdateProfile(o) ==
  /\ ops[o].kind = "signup" /\ ops[o].pc = "updateProfile"
  /\ displayName' = [displayName EXCEPT ![ops[o].uid] = ops[o].name]
  /\ ops' = [ops EXCEPT ![o].pc = "setDoc",
                        ![o].doc = SignupNewUser(ops[o].uid, ops[o].name)]
  /\ UNCHANGED <<signedUp, setBy, impl, viewVars, store, registered, photoURL,
                 blobs, authUser, user, firebaseUser, userRole, loading, lis,
                 evCount, route>>
  /\ returned' = NoReturn

\* setDoc(userDocRef, newUser) resolves; ctx then sets user and userRole
SignupSetDoc(o) ==
  /\ ops[o].kind = "signup" /\ ops[o].pc = "setDoc"
  /\ store' = [store EXCEPT ![ops[o].uid] = ops[o].doc]
  /\ IF impl = "ctx"
       THEN /\ user' = UserObj(ops[o].uid, ops[o].doc.name)
            /\ userRole' = "user"
            /\ setBy' = 0
       ELSE UNCHANGED <<user, userRole, setBy>>
  /\ signedUp' = signedUp \cup {[uid |-> ops[o].uid, name |-> ops[o].name]}
  /\ Finish(o, "ok")
  /\ UNCHANGED <<impl, viewVars, registered, displayName, photoURL, blobs,
                 authUser, firebaseUser, loading, lis, evCount, route>>

\* any of signup's awaited calls rejects (EmailAlreadyInUse, WeakPassword,
\* network): signup rejects
SignupFail(o) ==
  /\ ops[o].kind = "signup"
  /\ Finish(o, "error")
  /\ UNCHANGED <<signedUp, setBy, impl, viewVars, store, registered,
                 displayName, photoURL, blobs, authUser, user, firebaseUser,
                 userRole, loading, lis, evCount, route>>

\* ---- googleSignIn() / loginWithGoogle()
\* googleSignIn() is called and the account picked in the popup is u
GoogleBegin(o, u) ==
    /\ CanCall(o)
    /\ Start(o, "googleSignIn", u, NoName)
    /\ UNCHANGED <<signedUp, setBy, impl, adminVars, modVars, sideVars, mountVars, store,
                   registered, displayName, photoURL, blobs, authUser, user,
                   firebaseUser, userRole, loading, lis, evCount, route>>
    /\ returned' = NoReturn

\* googleSignIn is called by a caller that is not one of the forms below
GoogleCallFor(o, u) == GoogleBegin(o, u) /\ UNCHANGED formVars

GoogleCall(o) == \E u \in Uids : GoogleCallFor(o, u)

\* signInWithPopup resolves; a first-time identity gets Google's name
GooglePopup(o) ==
  LET u == ops[o].uid IN
  /\ ops[o].kind = "googleSignIn" /\ ops[o].pc = "call"
  /\ registered' = registered \cup {u}
  /\ displayName' = IF u \in registered THEN displayName
                    ELSE [displayName EXCEPT ![u] = GoogleName]
  /\ SetCurrentUser(u)
  /\ IF impl = "ctx"
       THEN ops' = [ops EXCEPT ![o].pc = "getDoc"] /\ returned' = NoReturn
       ELSE Finish(o, "ok")
  /\ UNCHANGED <<signedUp, impl, viewVars, store, photoURL, blobs, route>>

\* GoogleNewUser with another role than the default in the new document
GoogleNewUser_WrongRole(u) ==
  UserDoc(OrElse(displayName[u], ""), OrElse(EmailOf(u), ""), "editor")

\* the document googleSignIn creates when its lookup finds none
GoogleNewUser(u) ==
  UserDoc(OrElse(displayName[u], ""), OrElse(EmailOf(u), ""), "user")

\* GoogleGetDoc without the exists() test: a document is always created
GoogleGetDoc_AlwaysCreate(o) ==
  LET u == ops[o].uid IN
  /\ ops[o].kind = "googleSignIn" /\ ops[o].pc = "getDoc"
  /\ ops' = [ops EXCEPT ![o].pc = "setDoc", ![o].doc = GoogleNewUser(u)]
  /\ returned' = NoReturn
  /\ UNCHANGED <<signedUp, setBy, impl, viewVars, store, registered,
                 displayName, photoURL, blobs, authUser, user, firebaseUser,
                 userRole, loading, lis, evCount, route>>

\* getDoc(userDocRef) of googleSignIn resolves
GoogleGetDoc(o) ==
  LET u == ops[o].uid IN
  /\ ops[o].kind = "googleSignIn" /\ ops[o].pc = "getDoc"
  /\ IF store[u].exists
       THEN /\ userRole' = store[u].role
            /\ setBy' = 0
            /\ Finish(o, "ok")
       ELSE /\ ops' = [ops EXCEPT ![o].pc = "setDoc",
                                  ![o].doc = GoogleNewUser(u)]
            /\ UNCHANGED <<userRole, setBy>>
            /\ returned' = NoReturn
  /\ UNCHANGED <<signedUp, impl, viewVars, store, registered, displayName,
                 photoURL, blobs, authUser, user, firebaseUser, loading, lis,
                 evCount, route>>

\* setDoc(userDocRef, newUser) of googleSignIn resolves
GoogleSetDoc(o) ==
  /\ ops[o].kind = "googleSignIn" /\ ops[o].pc = "setDoc"
  /\ store' = [store EXCEPT ![ops[o].uid] = ops[o].doc]
  /\ userRole' = "user"
  /\ setBy' = 0
  /\ Finish(o, "ok")
  /\ UNCHANGED <<signedUp, impl, viewVars, registered, displayName, photoURL,
                 blobs, authUser, user, firebaseUser, loading, lis, evCount,
                 route>>

\* any of googleSignIn's awaited calls rejects (PopupClosedByUser, network)
GoogleFail(o) ==
  /\ ops[o].kind = "googleSignIn"
  /\ Finish(o, "error")
  /\ UNCHANGED <<signedUp, setBy, impl, viewVars, store, registered,
                 displayName, photoURL, blobs, authUser, user, firebaseUser,
                 userRole, loading, lis, evCount, route>>

\* ---- updateUser(data)  (ctx only)

\* the value of data.role: NoRole when data has no such key
DataRoles == {NoRole, "admin"}

\* UpdateUserBegin that uploads whether or not data.avatar is a File
UpdateUserBegin_AlwaysUpload(o) ==
  \E n \in Names, av \in BOOLEAN, rl \in DataRoles :
    /\ impl = "ctx"
    /\ CanCall(o)
    /\ IF firebaseUser = NoUser
         THEN /\ returned' = Settled("updateUser", "ok", NoUser)
              /\ UNCHANGED ops
         ELSE /\ ops' = [ops EXCEPT ![o] =
                  [Idle EXCEPT !.kind = "updateUser", !.pc = "uploadBytes",
                               !.uid = firebaseUser, !.name = n,
                               !.cap = user, !.avatar = av,
                               !.role = rl,
                               !.url = photoURL[firebaseUser],
                               !.since = evCount]]
              /\ returned' = NoReturn
    /\ UNCHANGED <<signedUp, setBy, impl, adminVars, modVars, sideVars, mountVars, store,
                   registered, displayName, photoURL, blobs, authUser, user,
                   firebaseUser, userRole, loading, lis, evCount, route>>

\* updateUser is called with data = {name, avatar} and, data being an open
\* record ({ [key: string]: any }), possibly a role key; avatar is a File
\* when av holds.  `firebaseUser` and `user` are those of the calling render.
UpdateUserBegin(o) ==
  \E n \in Names, av \in BOOLEAN, rl \in DataRoles :
    /\ impl = "ctx"
    /\ CanCall(o)
    /\ IF firebaseUser = NoUser
         THEN /\ returned' = Settled("updateUser", "ok", NoUser)
              /\ UNCHANGED ops
         ELSE /\ ops' = [ops EXCEPT ![o] =
                  [Idle EXCEPT !.kind = "updateUser",
                               !.pc = IF av THEN "uploadBytes"
                                            ELSE "updateProfile",
                               !.uid = firebaseUser, !.name = n,
                               !.cap = user, !.avatar = av,
                               !.role = rl,
                               !.url = photoURL[firebaseUser],
                               !.since = evCount]]
              /\ returned' = NoReturn
    /\ UNCHANGED <<signedUp, setBy, impl, adminVars, modVars, sideVars, mountVars, store,
                   registered, displayName, photoURL, blobs, authUser, user,
                   firebaseUser, userRole, loading, lis, evCount, route>>

\* updateUser is called by a caller that is not one of the forms below
UpdateUserCall(o) == UpdateUserBegin(o) /\ UNCHANGED formVars

\* uploadBytes(storageRef, data.avatar) resolves
UpdateUserUpload(o) ==
  /\ ops[o].kind = "updateUser" /\ ops[o].pc = "uploadBytes"
  /\ blobs' = blobs \cup {ops[o].uid}
  /\ ops' = [ops EXCEPT ![o].pc = "getDownloadURL"]
  /\ UNCHANGED <<signedUp, setBy, impl, viewVars, store, registered,
                 displayName, photoURL, authUser, user, firebaseUser, userRole,
                 loading, lis, evCount, route>>
  /\ returned' = NoReturn

\* getDownloadURL(storageRef) resolves
UpdateUserGetUrl(o) ==
  /\ ops[o].kind = "updateUser" /\ ops[o].pc = "getDownloadURL"
  /\ ops[o].uid \in blobs
  /\ ops' = [ops EXCEPT ![o].pc = "updateProfile",
                        ![o].url = AvatarUrl(ops[o].uid)]
  /\ UNCHANGED <<signedUp, setBy, impl, viewVars, store, registered,
                 displayName, photoURL, blobs, authUser, user, firebaseUser,
                 userRole, loading, lis, evCount, route>>
  /\ returned' = NoReturn

\* updateProfile(firebaseUser, {displayName, photoURL}) resolves
UpdateUserProfile(o) ==
  /\ ops[o].kind = "updateUser" /\ ops[o].pc = "updateProfile"
  /\ displayName' = [displayName EXCEPT ![ops[o].uid] = ops[o].name]
  /\ photoURL' = [photoURL EXCEPT ![ops[o].uid] = ops[o].url]
  /\ ops' = [ops EXCEPT ![o].pc = "updateDoc"]
  /\ UNCHANGED <<signedUp, setBy, impl, viewVars, store, registered, blobs,
                 authUser, user, firebaseUser, userRole, loading, lis, evCount,
                 route>>
  /\ returned' = NoReturn

\* the fields updateDoc merges into an existing document
MergeDoc(d, n, url, rl) ==
  [d EXCEPT !.name = n, !.avatar = url,
            !.role = IF rl = NoRole THEN d.role ELSE rl]

\* the Session user updateUser sets: {...user, ...data, displayName, photoURL}
UpdatedUser(cap, n) ==
  [isNull |-> FALSE, uid |-> IF cap.isNull THEN NoUid ELSE cap.uid,
   name |-> n]

\* updateDoc(userDocRef, {...data, avatar}) resolves, then setUser
UpdateUserDoc(o) ==
  LET u == ops[o].uid IN
  /\ ops[o].kind = "updateUser" /\ ops[o].pc = "updateDoc"
  /\ store[u].exists
  /\ store' = [store EXCEPT
                 ![u] = MergeDoc(store[u], ops[o].name, ops[o].url,
                                ops[o].role)]
  /\ user' = UpdatedUser(ops[o].cap, ops[o].name)
  /\ setBy' = 0
  /\ Finish(o, "ok")
  /\ UNCHANGED <<signedUp, impl, viewVars, registered, displayName, photoURL,
                 blobs, authUser, firebaseUser, userRole, loading, lis,
                 evCount, route>>

\* any awaited call of updateUser rejects (updateDoc also when the document
\* is missing): the catch logs and re-throws
UpdateUserFail(o) ==
  /\ ops[o].kind = "updateUser"
  /\ Finish(o, "error")
  /\ UNCHANGED <<signedUp, setBy, impl, viewVars, store, registered,
                 displayName, photoURL, blobs, authUser, user, firebaseUser,
                 userRole, loading, lis, evCount, route>>

\* ---- the environment
\* The provider drops its current user without an operation of this context
\* (sign-out in another tab, a revoked session): the stream yields null.
StreamEvent ==
  \E u \in {NoUser} :
    /\ evCount > 0
    /\ u # authUser
    /\ SetCurrentUser(u)
    /\ UNCHANGED <<signedUp, impl, viewVars, store, registered, displayName,
                   photoURL, blobs, ops, route>>
    /\ returned' = NoReturn

\* getDoc or setDoc of the callback rejects: the async callback ends with an
\* unhandled rejection and sets nothing
ListenerFail ==
  \E i \in lis :
    /\ lis' = lis \ {i}
    /\ UNCHANGED <<signedUp, setBy, impl, viewVars, store, registered,
                   displayName, photoURL, blobs, authUser, user, firebaseUser,
                   userRole, loading, evCount, ops, route>>
    /\ returned' = NoReturn

Next ==
  \/ InitialEvent
  \/ ListenerGetDoc
  \/ ListenerSetDoc
  \/ ListenerFail
  \/ StreamEvent
  \/ \E o \in Callers : LoginCall(o)
  \/ \E o \in Callers : LoginOk(o)
  \/ \E o \in Callers : LoginFail(o)
  \/ \E o \in Callers : LogoutCall(o)
  \/ \E o \in Callers : LogoutOk(o)
  \/ \E o \in Callers : LogoutFail(o)
  \/ \E o \in Callers : SignupCall(o)
  \/ \E o \in Callers : SignupCreate(o)
  \/ \E o \in Callers : SignupUpdateProfile(o)
  \/ \E o \in Callers : SignupSetDoc(o)
  \/ \E o \in Callers : SignupFail(o)
  \/ \E o \in Callers : GoogleCall(o)
  \/ \E o \in Callers : GooglePopup(o)
  \/ \E o \in Callers : GoogleGetDoc(o)
  \/ \E o \in Callers : GoogleSetDoc(o)
  \/ \E o \in Callers : GoogleFail(o)

Spec == Init /\ [][Next]_vars

\* Profile updates: sign-in by password, the stream and updateUser.
NextProfile ==
  \/ InitialEvent
  \/ ListenerGetDoc
  \/ ListenerFail
  \/ StreamEvent
  \/ \E o \in Callers : LoginCall(o)
  \/ \E o \in Callers : LoginOk(o)
  \/ \E o \in Callers : LoginFail(o)
  \/ \E o \in Callers : UpdateUserCall(o)
  \/ \E o \in Callers : UpdateUserUpload(o)
  \/ \E o \in Callers : UpdateUserGetUrl(o)
  \/ \E o \in Callers : UpdateUserProfile(o)
  \/ \E o \in Callers : UpdateUserDoc(o)
  \/ \E o \in Callers : UpdateUserFail(o)

SpecProfile == Init /\ [][NextProfile]_vars

\* Two callers sign the same new identity in through the federated provider
\* at the same time.
NewUid == "u1"

NextConcurrent ==
  \/ InitialEvent
  \/ ListenerGetDoc
  \/ ListenerSetDoc
  \/ \E o \in OpIds : GoogleCallFor(o, NewUid)
  \/ \E o \in OpIds : GooglePopup(o)
  \/ \E o \in OpIds : GoogleGetDoc(o)
  \/ \E o \in OpIds : GoogleSetDoc(o)
  \/ \E o \in OpIds : GoogleFail(o)

SpecConcurrent == Init /\ [][NextConcurrent]_vars

\* ------------------------------------------- the admin section's layout
\* src/src/app/blog/admin/layout.tsx and the pages under /blog/admin
AdminPages == {"posts", "comments", "stories", "users"}
ModeratorRoles == {"admin", "editor"}

\* navItems: the roles that see the sidebar link of a page
NavRoles(p) == IF p = "users" THEN {"admin"} ELSE {"admin", "editor"}

\* AccessDenied without the role test: any signed-in user passes
AccessDenied_NoRoleCheck == user.isNull

\* the guard's condition `!user || (userRole !== 'admin' && userRole !==
\* 'editor')`
AccessDenied == user.isNull \/ userRole \notin ModeratorRoles

\* AuthProvider renders its children, and so the layout, only when !loading
LayoutMounted == page # NoPage /\ ~loading

\* AdminLayoutView that tests the identity only
AdminLayoutView_AnyUser ==
  IF ~LayoutMounted THEN "none"
  ELSE IF loading THEN "loading"
  ELSE IF user.isNull THEN "denied"
  ELSE "children"

\* what AdminLayout returns
AdminLayoutView ==
  IF ~LayoutMounted THEN "none"
  ELSE IF loading THEN "loading"
  ELSE IF AccessDenied THEN "denied"
  ELSE "children"

\* the dependencies of the route guard effect in the current render
Deps == [ran |-> TRUE, user |-> user, role |-> userRole]

\* the guard effect is scheduled: the layout mounted or its dependencies
\* changed since the effect last ran
GuardDue == LayoutMounted /\ guardSeen # Deps

\* the browser is taken to /blog/admin/<p> (address bar, bookmark, a link)
Navigate(p) ==
  /\ p # page
  /\ page' = p
  /\ route' = "/blog/admin/" \o p
  /\ loaded' = FALSE
  /\ UNCHANGED <<ctxVars, modVars, sideVars, mountVars, formVars, guardSeen>>
  /\ returned' = NoReturn

\* a sidebar link of the layout is clicked
NavClick(p) ==
  /\ AdminLayoutView = "children"
  /\ userRole \in NavRoles(p)
  /\ Navigate(p)

\* the route guard effect runs: router.push('/login') when access is denied;
\* the navigation unmounts the layout
AdminGuardEffect ==
  /\ GuardDue
  /\ IF AccessDenied
       THEN /\ route' = "/login"
            /\ page' = NoPage
            /\ guardSeen' = NoDeps
            /\ loaded' = FALSE
       ELSE /\ guardSeen' = Deps
            /\ UNCHANGED <<route, page, loaded>>
  /\ UNCHANGED <<ctxVars, modVars, sideVars, mountVars, formVars>>
  /\ returned' = NoReturn

\* the collections a page reads when it mounts
PageReads(p) ==
  IF p = "users" THEN {"users"}
  ELSE IF p = "posts" THEN {"posts", "users"}
  ELSE {p, "users", "posts"}

\* the child page's mount effect: its reads are issued and resolve
\* (AdminPostsPage reads only for admin and editor; the others always)
PageFetch ==
  /\ AdminLayoutView = "children"
  /\ ~loaded
  /\ page = "posts" => userRole \in ModeratorRoles
  /\ loaded' = TRUE
  /\ UNCHANGED <<ctxVars, modVars, sideVars, mountVars, formVars, page, guardSeen,
                 route>>
  /\ returned' = NoReturn

\* The admin section: the stream, federated sign-in and the header's logout
\* change the Session while the browser moves between /blog/admin pages.  A
\* scheduled guard effect runs before anything else happens (React flushes
\* the effects of a render before it handles the next event).
NextAdmin ==
  \/ AdminGuardEffect
  \/ ~GuardDue /\ PageFetch
  \/ ~GuardDue /\ \E p \in AdminPages : Navigate(p)
  \/ ~GuardDue /\ \E p \in AdminPages : NavClick(p)
  \/ ~GuardDue /\ InitialEvent
  \/ ~GuardDue /\ ListenerGetDoc
  \/ ~GuardDue /\ ListenerSetDoc
  \/ ~GuardDue /\ StreamEvent
  \/ ~GuardDue /\ \E o \in Callers : GoogleCall(o)
  \/ ~GuardDue /\ \E o \in Callers : GooglePopup(o)
  \/ ~GuardDue /\ \E o \in Callers : GoogleGetDoc(o)
  \/ ~GuardDue /\ \E o \in Callers : GoogleSetDoc(o)
  \/ ~GuardDue /\ \E o \in Callers : GoogleFail(o)
  \/ ~GuardDue /\ \E o \in Callers : LogoutCall(o)
  \/ ~GuardDue /\ \E o \in Callers : LogoutOk(o)
  \/ ~GuardDue /\ \E o \in Callers : LogoutFail(o)

SpecAdmin == Init /\ [][NextAdmin]_vars

\* ------------------------------------------------ the moderation pages
\* AdminPostsPage, AdminCommentsPage and AdminStoriesPage
KindPage(k) ==
  IF k = "post" THEN "posts" ELSE IF k = "comment" THEN "comments"
  ELSE "stories"

\* Post['status'] and Comment['status'] / FollowUpStory['status']
StatusesOf(k) ==
  IF k = "post" THEN {"draft", "pending", "published", "rejected"}
  ELSE {"pending", "approved", "rejected"}

\* the row of the item of kind k is on screen: the layout renders the page,
\* the page has read its list and (AdminPostsPage only) passes its own check
RowShown(k) ==
  /\ AdminLayoutView = "children"
  /\ page = KindPage(k)
  /\ loaded
  /\ content[k] # "deleted"
  /\ k = "post" => userRole \in ModeratorRoles

\* StatusOffered without the admin test on Approve & Publish
StatusOffered_NoAdminTest(k, s) ==
  /\ s \in StatusesOf(k)
  /\ IF k = "post"
       THEN s \in {"published", "rejected", "draft"} /\ content[k] # s
       ELSE s \in {"approved", "rejected"} /\ content[k] # s

\* the row offers the control that sets status s
StatusOffered(k, s) ==
  /\ s \in StatusesOf(k)
  /\ IF k = "post"
       THEN \/ s = "published" /\ userRole = "admin" /\ content[k] # s
            \/ s \in {"rejected", "draft"} /\ content[k] # s
       ELSE s \in {"approved", "rejected"} /\ content[k] # s

\* DeleteOffered without the admin test
DeleteOffered_Always(k) == TRUE

\* the row offers Delete
DeleteOffered(k) == userRole = "admin"

\* handleStatusChange(id, s) up to `await updatePost / updateComment /
\* updateStory`: the write is issued; role is the Session role of the render
StatusClick(k, s) ==
  /\ RowShown(k)
  /\ StatusOffered(k, s)
  /\ modCall = NoCall
  /\ modCall' = [op |-> "update", kind |-> k, status |-> s, role |-> userRole]
  /\ UNCHANGED <<ctxVars, adminVars, sideVars, mountVars, formVars, content, route>>
  /\ returned' = NoReturn

\* handleDelete(id) up to `await deletePost / deleteComment / deleteStory`
DeleteClick(k) ==
  /\ RowShown(k)
  /\ DeleteOffered(k)
  /\ modCall = NoCall
  /\ modCall' = [op |-> "delete", kind |-> k, status |-> "deleted",
                 role |-> userRole]
  /\ UNCHANGED <<ctxVars, adminVars, sideVars, mountVars, formVars, content, route>>
  /\ returned' = NoReturn

\* the write reaches the document store and resolves; the handler updates
\* the page's list and shows its toast
ModResolve ==
  /\ modCall # NoCall
  /\ content' = [content EXCEPT ![modCall.kind] = modCall.status]
  /\ moderated' = IF modCall.status \in {"approved", "published"}
                    THEN moderated \cup {modCall.kind} ELSE moderated
  /\ modCall' = NoCall
  /\ UNCHANGED <<ctxVars, adminVars, mountVars, formVars, route, shown,
                 editPost, author, toastVars>>
  /\ returned' = NoReturn

\* the write rejects: the handler ends with an unhandled rejection
ModFail ==
  /\ modCall # NoCall
  /\ modCall' = NoCall
  /\ UNCHANGED <<ctxVars, adminVars, sideVars, mountVars, formVars, content, route>>
  /\ returned' = NoReturn

\* Moderation: a persisted moderator session or a first federated sign-in
\* (a regular user), the header's logout, and the three moderation pages.
ModerationPages == {"posts", "comments", "stories"}

NextModeration ==
  \/ AdminGuardEffect
  \/ ~GuardDue /\ PageFetch
  \/ ~GuardDue /\ \E p \in ModerationPages : Navigate(p)
  \/ ~GuardDue /\ \E k \in Kinds : \E s \in StatusesOf(k) : StatusClick(k, s)
  \/ ~GuardDue /\ \E k \in Kinds : DeleteClick(k)
  \/ ~GuardDue /\ ModResolve
  \/ ~GuardDue /\ ModFail
  \/ ~GuardDue /\ InitialEvent
  \/ ~GuardDue /\ ListenerGetDoc
  \/ ~GuardDue /\ ListenerSetDoc
  \/ ~GuardDue /\ \E o \in Callers : GoogleCallFor(o, NewUid)
  \/ ~GuardDue /\ \E o \in Callers : GooglePopup(o)
  \/ ~GuardDue /\ \E o \in Callers : GoogleGetDoc(o)
  \/ ~GuardDue /\ \E o \in Callers : GoogleSetDoc(o)
  \/ ~GuardDue /\ \E o \in Callers : LogoutCall(o)
  \/ ~GuardDue /\ \E o \in Callers : LogoutOk(o)

SpecModeration == Init /\ [][NextModeration]_vars

\* ------------------------------------------ mounting the AuthProvider
\* the effect's cleanup `return () => unsubscribe()` with the unsubscribe
\* left out
Unmount_NoUnsubscribe ==
  /\ mounted
  /\ mounted' = FALSE
  /\ UNCHANGED <<ctxVars, adminVars, modVars, sideVars, formVars, subs, route>>
  /\ returned' = NoReturn

\* The provider unmounts: the effect's cleanup runs unsubscribe().
Unmount ==
  /\ mounted
  /\ mounted' = FALSE
  /\ subs' = subs - 1
  /\ UNCHANGED <<ctxVars, adminVars, modVars, sideVars, formVars, route>>
  /\ returned' = NoReturn

\* The provider mounts again: a new instance with the initial useState
\* values runs the effect, which subscribes with onAuthStateChanged.  What
\* the callbacks and operations of the unmounted instance still do does not
\* reach the new instance and is not followed.
Mount ==
  /\ ~mounted
  /\ mounted' = TRUE
  /\ subs' = subs + 1
  /\ user' = NullUser
  /\ firebaseUser' = NoUser
  /\ userRole' = NoRole
  /\ loading' = TRUE
  /\ lis' = {}
  /\ evCount' = 0
  /\ setBy' = 0
  /\ ops' = [o \in OpIds |-> Idle]
  /\ UNCHANGED <<adminVars, modVars, sideVars, formVars, impl, store, registered,
                 displayName, photoURL, blobs, authUser, signedUp, route>>
  /\ returned' = NoReturn

\* Mount and unmount: the stream, sign-in by password and sign-up run while
\* the provider is mounted.
NextMount ==
  \/ Unmount
  \/ Mount
  \/ mounted /\ InitialEvent
  \/ mounted /\ ListenerGetDoc
  \/ mounted /\ ListenerSetDoc
  \/ mounted /\ ListenerFail
  \/ mounted /\ StreamEvent
  \/ mounted /\ \E o \in Callers : LoginCall(o)
  \/ mounted /\ \E o \in Callers : LoginOk(o)
  \/ mounted /\ \E o \in Callers : LoginFail(o)
  \/ mounted /\ \E o \in Callers : SignupCall(o)
  \/ mounted /\ \E o \in Callers : SignupCreate(o)
  \/ mounted /\ \E o \in Callers : SignupUpdateProfile(o)
  \/ mounted /\ \E o \in Callers : SignupSetDoc(o)
  \/ mounted /\ \E o \in Callers : SignupFail(o)

SpecMount == Init /\ [][NextMount]_vars

\* ------------------------------------------------- the forms' handlers
\* LoginPage, SignupPage and ProfilePage: onSubmit / handleGoogleSignIn
Forms == {"login", "signup", "profile"}

\* the operations a form's controls start
FormOps(f) ==
  IF f = "login" THEN {"login", "googleSignIn"}
  ELSE IF f = "signup" THEN {"signup", "googleSignIn"}
  ELSE {"updateUser"}

\* the page renders its form: the sign-in and sign-up pages for no user, the
\* profile page for a user
FormShown(f) ==
  ~loading /\ (IF f = "profile" THEN ~user.isNull ELSE user.isNull)

\* `disabled={isLoading}` on the submit controls
ControlsDisabled == isLoading

\* the browser opens the page of form f; the pages are opened when no
\* operation of a page left earlier is still outstanding
OpenForm(f) ==
  /\ form = NoPage
  /\ \A o \in OpIds : ops[o].kind = "idle"
  /\ form' = f
  /\ isLoading' = FALSE
  /\ awaiting' = 0
  /\ formError' = FALSE
  /\ route' = IF f = "profile" THEN "/dashboard/profile" ELSE "/" \o f
  /\ UNCHANGED <<ctxVars, adminVars, modVars, sideVars, mountVars>>
  /\ returned' = NoReturn

\* FormSubmit through controls that lack the disabled attribute
FormSubmit_NotDisabled(f, k, o) ==
  /\ form = f
  /\ FormShown(f)
  /\ k \in FormOps(f)
  /\ CASE k = "login" -> LoginBegin(o)
       [] k = "signup" -> SignupBegin(o)
       [] k = "googleSignIn" -> \E u \in Uids : GoogleBegin(o, u)
       [] k = "updateUser" -> UpdateUserBegin(o) /\ ops'[o].role = NoRole
  /\ isLoading' = TRUE
  /\ awaiting' = awaiting + 1
  /\ formError' = FALSE
  /\ UNCHANGED form

\* a submit control of form f is used: the handler runs setIsLoading(true),
\* setError(null) and calls the operation, up to its first await
FormSubmit(f, k, o) ==
  /\ form = f
  /\ FormShown(f)
  /\ k \in FormOps(f)
  /\ ~ControlsDisabled
  /\ CASE k = "login" -> LoginBegin(o)
       [] k = "signup" -> SignupBegin(o)
       [] k = "googleSignIn" -> \E u \in Uids : GoogleBegin(o, u)
       [] k = "updateUser" -> UpdateUserBegin(o) /\ ops'[o].role = NoRole
  /\ isLoading' = TRUE
  /\ awaiting' = awaiting + 1
  /\ formError' = FALSE
  /\ UNCHANGED form

\* the operation a handler of the mounted form awaits settled in the step
\* just taken: the handler's continuation is the next thing to run
FormDue ==
  form # NoPage /\ awaiting > 0 /\ returned.kind \in FormOps(form)

\* FormFinally of a handler that calls login again when it rejected
FormFinally_Retry ==
  /\ FormDue
  /\ IF returned.kind = "login" /\ returned.result = "error"
       THEN /\ ops' = [ops EXCEPT !["o1"] =
                         [Idle EXCEPT !.kind = "login", !.pc = "call",
                                      !.uid = returned.uid,
                                      !.since = evCount]]
            /\ UNCHANGED <<isLoading, awaiting, formError>>
       ELSE /\ formError' = (returned.result = "error")
            /\ isLoading' = FALSE
            /\ awaiting' = awaiting - 1
            /\ UNCHANGED ops
  /\ UNCHANGED <<impl, store, registered, displayName, photoURL, blobs,
                 authUser, user, firebaseUser, userRole, loading, lis,
                 evCount, setBy, signedUp, adminVars, modVars, sideVars, mountVars,
                 form, route>>
  /\ returned' = NoReturn

\* catch { setError(error.message) } finally { setIsLoading(false) }
FormFinally ==
  /\ FormDue
  /\ formError' = (returned.result = "error")
  /\ isLoading' = FALSE
  /\ awaiting' = awaiting - 1
  /\ UNCHANGED <<ctxVars, adminVars, modVars, sideVars, mountVars, form, route>>
  /\ returned' = NoReturn

\* the page stops rendering its form and navigates: the sign-in and sign-up
\* pages once a user is set, the profile page when there is none; handlers
\* of the unmounted form no longer change anything
FormRedirect ==
  /\ form # NoPage
  /\ ~loading
  /\ ~FormShown(form)
  /\ route' = IF form = "profile" THEN "/login"
              ELSE IF userRole \in ModeratorRoles THEN "/blog/admin"
              ELSE "/dashboard"
  /\ form' = NoPage
  /\ isLoading' = FALSE
  /\ awaiting' = 0
  /\ formError' = FALSE
  /\ UNCHANGED <<ctxVars, adminVars, modVars, sideVars, mountVars>>
  /\ returned' = NoReturn

\* The forms: every operation is started by a form's handler, the steps of
\* the operations and of the stream run as before, and a handler whose
\* operation settled continues before anything else happens.
NextForm ==
  \/ FormFinally
  \/ ~FormDue /\ \E f \in Forms : OpenForm(f)
  \/ ~FormDue /\ \E f \in Forms, o \in OpIds :
                    \E k \in FormOps(f) : FormSubmit(f, k, o)
  \/ ~FormDue /\ FormRedirect
  \/ ~FormDue /\ InitialEvent
  \/ ~FormDue /\ ListenerGetDoc
  \/ ~FormDue /\ ListenerSetDoc
  \/ ~FormDue /\ \E o \in OpIds : LoginOk(o)
  \/ ~FormDue /\ \E o \in OpIds : LoginFail(o)
  \/ ~FormDue /\ \E o \in OpIds : SignupCreate(o)
  \/ ~FormDue /\ \E o \in OpIds : SignupUpdateProfile(o)
  \/ ~FormDue /\ \E o \in OpIds : SignupSetDoc(o)
  \/ ~FormDue /\ \E o \in OpIds : SignupFail(o)
  \/ ~FormDue /\ \E o \in OpIds : GooglePopup(o)
  \/ ~FormDue /\ \E o \in OpIds : GoogleGetDoc(o)
  \/ ~FormDue /\ \E o \in OpIds : GoogleSetDoc(o)
  \/ ~FormDue /\ \E o \in OpIds : GoogleFail(o)
  \/ ~FormDue /\ \E o \in OpIds : UpdateUserUpload(o)
  \/ ~FormDue /\ \E o \in OpIds : UpdateUserGetUrl(o)
  \/ ~FormDue /\ \E o \in OpIds : UpdateUserProfile(o)
  \/ ~FormDue /\ \E o \in OpIds : UpdateUserDoc(o)
  \/ ~FormDue /\ \E o \in OpIds : UpdateUserFail(o)

SpecForm == Init /\ [][NextForm]_vars

\* ------------------------------------------- the role-creation race
\* A writer other than this client (the Firebase console, an admin tool)
\* gives a registered identity an elevated role in its users document,
\* creating the document when there is none.
ExternalSetRole(u, r) ==
  /\ u \in registered
  /\ r \in {"editor", "admin"}
  /\ ~(store[u].exists /\ store[u].role = r)
  /\ store' = [store EXCEPT ![u] =
                 IF store[u].exists THEN [store[u] EXCEPT !.role = r]
                 ELSE UserDoc(displayName[u], EmailOf(u), r)]
  /\ UNCHANGED <<signedUp, setBy, impl, viewVars, registered, displayName,
                 photoURL, blobs, authUser, user, firebaseUser, userRole,
                 loading, lis, evCount, ops, route>>
  /\ returned' = NoReturn

\* The check-then-create of the listener, of signup and of googleSignIn,
\* with the users collection shared with other writers.
NextRace ==
  \/ InitialEvent
  \/ ListenerGetDoc
  \/ ListenerSetDoc
  \/ \E u \in Uids, r \in Roles : ExternalSetRole(u, r)
  \/ \E o \in Callers : SignupCall(o)
  \/ \E o \in Callers : SignupCreate(o)
  \/ \E o \in Callers : SignupUpdateProfile(o)
  \/ \E o \in Callers : SignupSetDoc(o)
  \/ \E o \in Callers : GoogleCall(o)
  \/ \E o \in Callers : GooglePopup(o)
  \/ \E o \in Callers : GoogleGetDoc(o)
  \/ \E o \in Callers : GoogleSetDoc(o)

SpecRace == Init /\ [][NextRace]_vars

\* ------------------------------------ submissions and the public pages
\* the status under which the public pages list an item
PublicStatus(k) == IF k = "post" THEN "published" ELSE "approved"

\* SubmitStoryPage.onSubmit (a post) and SubmissionModal.handleSubmit (a
\* comment, a follow-up story): addPost / addComment / addStory resolves.
\* One item of each kind is followed; a new submission is followed once the
\* item followed before it has been deleted.
SubmitContent(k) ==
  /\ ~loading /\ ~user.isNull
  /\ content[k] = "deleted"
  /\ content' = [content EXCEPT ![k] = "pending"]
  /\ author' = IF k = "post" THEN user.uid ELSE author
  /\ shown' = [shown EXCEPT ![k] = FALSE]
  /\ moderated' = moderated \ {k}
  /\ editPost' = IF k = "post" THEN NoPost ELSE editPost
  /\ route' = IF k = "post" THEN "/dashboard" ELSE route
  /\ UNCHANGED <<ctxVars, adminVars, modCall, mountVars, formVars, toastVars>>
  /\ returned' = NoReturn

\* PublicFetch that lists every item, whatever its status
PublicFetch_NoFilter(k) ==
  /\ shown' = [shown EXCEPT ![k] = (content[k] # "deleted")]
  /\ shown' # shown
  /\ UNCHANGED <<ctxVars, adminVars, modVars, mountVars, formVars, moderated,
                 editPost, author, toastVars, route>>
  /\ returned' = NoReturn

\* The blog list (getPublishedPosts) and a post's InteractiveSection
\* (getComments / getStories, then the filter on 'approved') fetch and set
\* their list; the list is what the page shows until it fetches again.
PublicFetch(k) ==
  /\ shown' = [shown EXCEPT ![k] = (content[k] = PublicStatus(k))]
  /\ shown' # shown
  /\ UNCHANGED <<ctxVars, adminVars, modVars, mountVars, formVars, moderated,
                 editPost, author, toastVars, route>>
  /\ returned' = NoReturn

\* -------------------------------------------- the author's edit page
EditActions == {"draft", "submit"}

\* handlePostUpdate: the status it writes, from the status the page loaded
NewStatus(st, a) ==
  IF a = "submit" /\ st \in {"draft", "rejected"} THEN "pending"
  ELSE IF a = "draft" THEN "draft"
  ELSE st

\* EditPostPage mounts with a user: its effect awaits getPost(id), then
\* either redirects (no such post, or the user is not its author) or sets
\* post.  The session is taken not to change while getPost is awaited.
EditOpen ==
  /\ ~loading /\ ~user.isNull
  /\ editPost = NoPost
  /\ IF content["post"] = "deleted" \/ author # user.uid
       THEN route' = "/dashboard" /\ UNCHANGED editPost
       ELSE /\ editPost' = [status |-> content["post"], write |-> "none"]
            /\ route' = "/dashboard/edit"
  /\ UNCHANGED <<ctxVars, adminVars, modVars, mountVars, formVars, shown,
                 moderated, author, toastVars>>
  /\ returned' = NoReturn

\* handlePostUpdate(values, a) up to `await updatePost(post.id, {...})`
EditSaveClick(a) ==
  /\ editPost.status # "none"
  /\ editPost.write = "none"
  /\ editPost' = [editPost EXCEPT !.write = NewStatus(editPost.status, a)]
  /\ UNCHANGED <<ctxVars, adminVars, modVars, mountVars, formVars, shown,
                 moderated, author, toastVars, route>>
  /\ returned' = NoReturn

\* updatePost resolves: the toast, then router.push('/dashboard')
EditSaveResolve ==
  /\ editPost.write \notin {"none", "failed"}
  /\ content["post"] # "deleted"
  /\ content' = [content EXCEPT !["post"] = editPost.write]
  /\ editPost' = NoPost
  /\ route' = "/dashboard"
  /\ UNCHANGED <<ctxVars, adminVars, modCall, mountVars, formVars, shown,
                 moderated, author, toastVars>>
  /\ returned' = NoReturn

\* updatePost rejects (the post was deleted, the network): the handler ends
\* with an unhandled rejection before setIsLoading(false)
EditSaveFail ==
  /\ editPost.write \notin {"none", "failed"}
  /\ editPost' = [editPost EXCEPT !.write = "failed"]
  /\ UNCHANGED <<ctxVars, adminVars, modVars, mountVars, formVars, shown,
                 moderated, author, toastVars, route>>
  /\ returned' = NoReturn

\* Submission, moderation and publication: a persisted moderator session
\* (or none), the three moderation pages, the submission forms and the
\* public pages.
NextPublic ==
  \/ AdminGuardEffect
  \/ ~GuardDue /\ PageFetch
  \/ ~GuardDue /\ \E p \in ModerationPages : Navigate(p)
  \/ ~GuardDue /\ \E k \in Kinds : \E s \in StatusesOf(k) : StatusClick(k, s)
  \/ ~GuardDue /\ \E k \in Kinds : DeleteClick(k)
  \/ ~GuardDue /\ ModResolve
  \/ ~GuardDue /\ InitialEvent
  \/ ~GuardDue /\ ListenerGetDoc
  \/ ~GuardDue /\ \E k \in Kinds : SubmitContent(k)
  \/ ~GuardDue /\ \E k \in Kinds : PublicFetch(k)

SpecPublic == Init /\ [][NextPublic]_vars

\* The author's edit page: the author (u2, a persisted session) and another
\* identity (a first federated sign-in), the moderation posts page, the
\* edit page and the blog list.
NextAuthor ==
  \/ AdminGuardEffect
  \/ ~GuardDue /\ PageFetch
  \/ ~GuardDue /\ Navigate("posts")
  \/ ~GuardDue /\ \E s \in StatusesOf("post") : StatusClick("post", s)
  \/ ~GuardDue /\ ModResolve
  \/ ~GuardDue /\ InitialEvent
  \/ ~GuardDue /\ ListenerGetDoc
  \/ ~GuardDue /\ ListenerSetDoc
  \/ ~GuardDue /\ \E o \in Callers : GoogleCallFor(o, NewUid)
  \/ ~GuardDue /\ \E o \in Callers : GooglePopup(o)
  \/ ~GuardDue /\ \E o \in Callers : GoogleGetDoc(o)
  \/ ~GuardDue /\ \E o \in Callers : GoogleSetDoc(o)
  \/ ~GuardDue /\ PublicFetch("post")
  \/ ~GuardDue /\ EditOpen
  \/ ~GuardDue /\ \E a \in EditActions : EditSaveClick(a)
  \/ ~GuardDue /\ EditSaveResolve
  \/ ~GuardDue /\ EditSaveFail

SpecAuthor == Init /\ [][NextAuthor]_vars

\* ----------------------------------------------------- the toast store
\* (use-toast: reducer, dispatch, toast, useToast)
TOAST_LIMIT == 1

\* `undefined` as a toastId; the ids genId gives start at 1
NoId == 0
Titles == {"Saved", "Error"}

\* the toast ids and the actions dispatched in one behaviour
ToastIds == 1..MaxToasts

ToastActions ==
  [type : {"ADD_TOAST", "UPDATE_TOAST", "DISMISS_TOAST", "REMOVE_TOAST"},
   id : ToastIds \cup {NoId}, title : Titles, hasOpen : BOOLEAN,
   open : BOOLEAN]

\* [toast, ...toasts].slice(0, n)
Slice(s, n) == IF Len(s) <= n THEN s ELSE SubSeq(s, 1, n)

\* toasts.filter((t) => t.id !== id)
RECURSIVE FilterOut(_, _)
FilterOut(s, id) ==
  IF s = <<>> THEN <<>>
  ELSE IF Head(s).id = id THEN FilterOut(Tail(s), id)
  ELSE <<Head(s)>> \o FilterOut(Tail(s), id)

\* reducer whose ADD_TOAST keeps every toast
reducer_NoSlice(state, action) ==
  CASE action.type = "ADD_TOAST" ->
         <<[id |-> action.id, open |-> action.open,
            title |-> action.title]>> \o state
    [] action.type = "UPDATE_TOAST" ->
         [i \in DOMAIN state |->
            IF state[i].id = action.id
              THEN [id |-> action.id, title |-> action.title,
                    open |-> IF action.hasOpen THEN action.open
                             ELSE state[i].open]
              ELSE state[i]]
    [] action.type = "DISMISS_TOAST" ->
         [i \in DOMAIN state |->
            IF state[i].id = action.id \/ action.id = NoId
              THEN [state[i] EXCEPT !.open = FALSE]
              ELSE state[i]]
    [] action.type = "REMOVE_TOAST" ->
         IF action.id = NoId THEN <<>> ELSE FilterOut(state, action.id)

\* reducer(state, action), state being state.toasts
reducer(state, action) ==
  CASE action.type = "ADD_TOAST" ->
         Slice(<<[id |-> action.id, open |-> action.open,
                  title |-> action.title]>> \o state, TOAST_LIMIT)
    [] action.type = "UPDATE_TOAST" ->
         [i \in DOMAIN state |->
            IF state[i].id = action.id
              THEN [id |-> action.id, title |-> action.title,
                    open |-> IF action.hasOpen THEN action.open
                             ELSE state[i].open]
              ELSE state[i]]
    [] action.type = "DISMISS_TOAST" ->
         [i \in DOMAIN state |->
            IF state[i].id = action.id \/ action.id = NoId
              THEN [state[i] EXCEPT !.open = FALSE]
              ELSE state[i]]
    [] action.type = "REMOVE_TOAST" ->
         IF action.id = NoId THEN <<>> ELSE FilterOut(state, action.id)

\* dispatch(action): memoryState = reducer(memoryState, action), then every
\* listener is called with it
dispatch(action) ==
  /\ memoryState' = reducer(memoryState, action)
  /\ seen' = [l \in ListenerIds |->
                IF l \in listeners THEN memoryState' ELSE seen[l]]

\* toast(props): genId, then dispatch ADD_TOAST with open: true
Toast(t) ==
  /\ count < MaxToasts
  /\ count' = count + 1
  /\ dispatch([type |-> "ADD_TOAST", id |-> count + 1, title |-> t,
               hasOpen |-> TRUE, open |-> TRUE])
  /\ UNCHANGED <<ctxVars, adminVars, modVars, mountVars, formVars, pubVars,
                 listeners, route>>
  /\ returned' = NoReturn

\* the other dispatches: update(props) and dismiss() of a toast, dismiss of
\* useToast (with an id or none), and REMOVE_TOAST
Dispatch(a) ==
  /\ a.type # "ADD_TOAST"
  /\ a.type = "UPDATE_TOAST" => a.id # NoId
  /\ a.type \in {"DISMISS_TOAST", "REMOVE_TOAST"}
       => (a.title = "Saved" /\ ~a.hasOpen /\ ~a.open)
  /\ a.hasOpen \/ ~a.open
  /\ dispatch(a)
  /\ UNCHANGED <<ctxVars, adminVars, modVars, mountVars, formVars, pubVars,
                 count, listeners, route>>
  /\ returned' = NoReturn

\* a component using useToast mounts: useState(memoryState), and its effect
\* pushes setState on listeners
Subscribe(l) ==
  /\ l \notin listeners
  /\ listeners' = listeners \cup {l}
  /\ seen' = [seen EXCEPT ![l] = memoryState]
  /\ UNCHANGED <<ctxVars, adminVars, modVars, mountVars, formVars, pubVars,
                 memoryState, count, route>>
  /\ returned' = NoReturn

\* the component unmounts: the effect's cleanup splices setState out
Unsubscribe(l) ==
  /\ l \in listeners
  /\ listeners' = listeners \ {l}
  /\ UNCHANGED <<ctxVars, adminVars, modVars, mountVars, formVars, pubVars,
                 memoryState, count, seen, route>>
  /\ returned' = NoReturn

NextToast ==
  \/ \E t \in Titles : Toast(t)
  \/ \E a \in ToastActions : Dispatch(a)
  \/ \E l \in ListenerIds : Subscribe(l)
  \/ \E l \in ListenerIds : Unsubscribe(l)

SpecToast == Init /\ [][NextToast]_vars

\* ------------------------------------------------- counting round trips
\* the calls to the identity provider an operation has issued when it is at
\* its pc (the awaited call of the pc included)
IdpCalls(op) ==
  CASE op.kind = "login" -> 1
    [] op.kind = "logout" -> 1
    [] op.kind = "signup" -> IF op.pc = "call" THEN 1 ELSE 2
    [] op.kind = "googleSignIn" -> 1
    [] op.kind = "updateUser" ->
         IF op.pc \in {"updateProfile", "updateDoc"} THEN 1 ELSE 0
    [] OTHER -> 0

\* the calls to the document store an operation has issued when it is at
\* its pc
StoreCalls(op) ==
  CASE op.kind = "signup" /\ op.pc = "setDoc" -> 1
    [] op.kind = "googleSignIn" /\ op.pc = "getDoc" -> 1
    [] op.kind = "googleSignIn" /\ op.pc = "setDoc" -> 2
    [] op.kind = "updateUser" /\ op.pc = "updateDoc" -> 1
    [] OTHER -> 0

\* the calls to the document store issued so far by the callbacks of the
\* stream events that the operation triggered
ListenerStoreCalls(op) ==
  LET mine == {i \in lis : i.uid = op.uid /\ i.ev > op.since} IN
  Cardinality(mine) + Cardinality({i \in mine : i.pc = "setDoc"})

\* ------------------------------------------------------------ the claims
Authenticated == ~loading /\ ~user.isNull
Anonymous == ~loading /\ user.isNull /\ userRole = NoRole

\* C1: in every reachable state the Session role is populated only if the
\* Session identity is populated (userRole != null implies user != null).
C1_RoleOnlyWithIdentity == userRole # NoRole => ~user.isNull

C3_SignOutAnonymous ==
  returned.kind = "logout" => user.isNull /\ userRole = NoRole

\* C4: after signUp resolved, the Role Record of the new identity has role
\* user and the submitted displayName and email, whatever the listener's
\* lookup and create-if-absent for that identity did or does.
C4_SignUpRecord ==
  \A s \in signedUp : store[s.uid] = UserDoc(s.name, EmailOf(s.uid), "user")

\* C5: once the stream has yielded null and every lookup and operation has
\* completed, the Session has no identity: a lookup started for an earlier
\* event does not turn it back into Authenticated.
C5_SessionFollowsStream ==
  (evCount > 0 /\ authUser = NoUser /\ lis = {}
     /\ \A o \in OpIds : ops[o].kind = "idle") => user.isNull

\* the step in which operation o assigns the Session directly
LocalUpdate(o) ==
  \/ SignupSetDoc(o) /\ impl = "ctx"
  \/ GoogleGetDoc(o) /\ store[ops[o].uid].exists
  \/ GoogleSetDoc(o)
  \/ UpdateUserDoc(o)

\* C6: a direct update of the Session by an operation never overwrites
\* Session state assigned from a stream event delivered after the operation
\* began.
C6_StreamSupersedes ==
  [][\A o \in OpIds :
       (LocalUpdate(o) /\ setBy > ops[o].since)
          => (user' = user /\ userRole' = userRole)]_vars

Quiescent == lis = {} /\ \A o \in OpIds : ops[o].kind = "idle"

C9_GoogleNoWriteWhenPresent ==
  [][\A o \in OpIds :
       (/\ ops[o].kind = "googleSignIn"
        /\ ops[o].pc \in {"call", "getDoc"}
        /\ store[ops[o].uid].exists
        /\ ops'[o] # ops[o])
          => (store' = store /\ ops'[o].pc # "setDoc")]_vars

\* googleSignIn resolved for u2, whose record existed and kept its role
C9_Witness ==
  /\ impl = "ctx"
  /\ returned = Settled("googleSignIn", "ok", "u2")
  /\ store["u2"].exists /\ store["u2"].role \in {"editor", "admin"}

\* C10: updateProfile called while the Session is Anonymous does not
\* complete as a success: the caller gets an error.
C10_AnonymousUpdateFails ==
  [][\A o \in Callers :
       (UpdateUserCall(o) /\ Anonymous) => returned'.result # "ok"]_vars

\* C11: updateProfile called while the Session is Anonymous issues no call
\* to the document store or to blob storage (no operation is left in
\* flight) and leaves the Session, the identity profile and every Role
\* Record as they were.
C11_AnonymousUpdateNoEffect ==
  [][\A o \in Callers :
       (UpdateUserCall(o) /\ Anonymous)
          => /\ ops' = ops
             /\ store' = store /\ blobs' = blobs
             /\ displayName' = displayName /\ photoURL' = photoURL
             /\ user' = user /\ userRole' = userRole]_vars

\* a Session that is Anonymous or holds the regular "user" role
RegularOrAnonymous == Anonymous \/ (Authenticated /\ userRole = "user")

\* C12: whenever the admin layout renders its child page, loading is false,
\* the Session identity is non-null and the Session role is admin or editor;
\* under a regular-role or Anonymous Session the layout never renders the
\* child page, its route guard is scheduled, and when the guard runs it
\* pushes /login.
C12_ModerationViewsGated ==
  /\ [](AdminLayoutView = "children"
          => ~loading /\ ~user.isNull /\ userRole \in {"admin", "editor"})
  /\ []((LayoutMounted /\ RegularOrAnonymous)
          => (AdminLayoutView # "children" /\ GuardDue))
  /\ [][(AdminGuardEffect /\ RegularOrAnonymous) => route' = "/login"]_vars

\* a regular user is on an admin route: Access Denied, the redirect is due
C12_Witness ==
  /\ page \in AdminPages /\ Authenticated /\ userRole = "user"
  /\ AdminLayoutView = "denied" /\ GuardDue

C15_UsersPageAdminOnly ==
  (page = "users" /\ AdminLayoutView = "children"
     /\ "users" \in PageReads(page))
    => userRole = "admin"

\* C16: signOut never surfaces an error to its caller: whenever logout
\* settles, also after the provider's sign-out call rejected, it has
\* resolved.
C16_SignOutNeverThrows == returned.kind = "logout" => returned.result = "ok"

\* C17: over any sequence of mounts and unmounts the context holds exactly
\* one open subscription to the session stream while it is mounted and none
\* after it unmounted; a remount does not leave a second one.
C17_OneSubscription == subs = (IF mounted THEN 1 ELSE 0)

\* mounted again, after a sign-up in an earlier mounting, before the new
\* subscription's first event
C17_Witness ==
  /\ mounted /\ subs = 1 /\ evCount = 0
  /\ signedUp # {} /\ loading

\* C18: a form never has two of its operations outstanding: its submit
\* controls are disabled exactly from the submit until the handler's
\* operation has resolved or rejected, a submit happens only through an
\* enabled control, and the handler re-enables the controls on the success
\* and on the failure path alike.
C18_OneOperationPerForm ==
  /\ [](awaiting <= 1)
  /\ [](form # NoPage => (ControlsDisabled <=> awaiting > 0))
  /\ [][(awaiting' > awaiting) => ~ControlsDisabled]_vars
  /\ [][FormFinally => ~ControlsDisabled']_vars

\* the sign-up form after its operation rejected: error shown, controls
\* enabled again
C18_Witness ==
  /\ form = "signup" /\ formError /\ ~ControlsDisabled /\ awaiting = 0
  /\ \A o \in OpIds : ops[o].kind = "idle"

\* C19: an operation in progress (signIn, signUp, federated sign-in,
\* updateProfile) has issued at most one call to the identity provider and,
\* together with the stream handling it triggered, at most one call to the
\* document store: it never goes beyond the one round trip each that it
\* makes in total.
C19_OneRoundTripEach ==
  \A o \in OpIds :
    ops[o].kind \in {"login", "signup", "googleSignIn", "updateUser"}
      => /\ IdpCalls(ops[o]) <= 1
         /\ StoreCalls(ops[o]) + ListenerStoreCalls(ops[o]) <= 1

\* the call is inside the `if (data.avatar && typeof data.avatar !== 'string')`
\* block of updateUser
UploadPhase(o) ==
  ops[o].kind = "updateUser" /\ ops[o].pc \in {"uploadBytes", "getDownloadURL"}

\* C20: in updateUser a blob is uploaded only by a call that was given a new
\* avatar File; such a call issues the users-document write only after its
\* upload and download-URL steps resolved; and when the upload (or the URL
\* fetch) rejects, the call ends without changing the document store.
C20_UploadBeforeWrite ==
  /\ [](\A o \in Callers :
          /\ UploadPhase(o) => ops[o].avatar
          /\ (ops[o].kind = "updateUser" /\ ops[o].avatar
                /\ ops[o].pc \in {"updateProfile", "updateDoc"})
               => /\ ops[o].uid \in blobs
                  /\ ops[o].url = AvatarUrl(ops[o].uid))
  /\ [][/\ blobs' # blobs
           => \E o \in Callers :
                /\ ops[o].kind = "updateUser" /\ ops[o].pc = "uploadBytes"
                /\ ops[o].avatar
                /\ blobs' = blobs \cup {ops[o].uid}
        /\ \A o \in Callers :
             (UploadPhase(o) /\ ops'[o].kind = "idle")
               => /\ returned' = Settled("updateUser", "error", ops[o].uid)
                  /\ store' = store]_vars

\* an update with a new avatar resolved: the blob is stored and the
\* users document carries its download URL
C20_Witness ==
  \E u \in Uids :
    /\ returned = Settled("updateUser", "ok", u)
    /\ u \in blobs
    /\ store[u].exists /\ store[u].avatar = AvatarUrl(u)

\* C21: whenever updateUser rejects, at whichever of its awaited steps, the
\* rejection reaches the caller, the Session (user and role) is as it was
\* before the step, and the display name and avatar URL the identity
\* provider holds for the identity equal those in its users document.
C21_FailedUpdateNotDiverged ==
  [][\A o \in Callers :
       UpdateUserFail(o)
         => LET u == ops[o].uid IN
            /\ returned' = Settled("updateUser", "error", u)
            /\ user' = user /\ userRole' = userRole
            /\ store'[u].exists
                 => /\ displayName'[u] = store'[u].name
                    /\ photoURL'[u] = store'[u].avatar]_vars

\* C22: when signInWithEmailAndPassword rejects, login rejects to the form
\* handler that awaited it, the Session is left as it was (Anonymous stays
\* Anonymous), and the handler then shows the error and re-enables its
\* controls without issuing another call: a submission of the login form
\* has at most one sign-in call in flight and none after the rejection.
C22_SignInErrorPropagates ==
  /\ [](form = "login"
          => Cardinality({o \in OpIds : ops[o].kind = "login"}) <= awaiting)
  /\ [][\A o \in OpIds :
          LoginFail(o)
            => /\ returned' = Settled("login", "error", ops[o].uid)
               /\ user' = user /\ userRole' = userRole
               /\ authUser' = authUser
               /\ Anonymous => Anonymous'
               /\ \A p \in OpIds : ops'[p].kind # "login"]_vars
  /\ [][(form = "login" /\ returned.kind = "login"
           /\ returned.result = "error")
          => /\ formError' /\ ~isLoading'
             /\ ops' = ops
             /\ user' = user /\ userRole' = userRole]_vars

\* the login form has just been handed the rejection of its sign-in call,
\* with the Session Anonymous
C22_Witness ==
  /\ form = "login" /\ awaiting = 1 /\ isLoading
  /\ returned.kind = "login" /\ returned.result = "error"
  /\ Anonymous

\* C23: once the session stream has delivered its first event and every
\* invocation of the listener callback has ended (its lookup and its lazy
\* create resolved or rejected), the Session has left Loading: loading is
\* false.
C23_LeavesLoading == (evCount > 0 /\ lis = {}) => ~loading

\* C24: a users document that holds role editor or admin is never replaced
\* by one whose role is the regular "user", whichever of the listener's,
\* signup's and googleSignIn's lookups and writes interleave with the write
\* that gave the elevated role.
C24_NoRoleDowngrade ==
  [][\A u \in Uids :
       (store[u].exists /\ store[u].role \in {"editor", "admin"})
         => (store'[u].exists /\ store'[u].role # "user")]_vars

\* C25: no step of updateUser changes authorization, whatever the data it
\* was called with: the role in the caller's users document and the
\* Session role are after the step what they were before it.
C25_UpdateKeepsRole ==
  [][\A o \in Callers :
       (ops[o].kind = "updateUser" /\ ops'[o] # ops[o])
         => LET u == ops[o].uid IN
            /\ userRole' = userRole
            /\ store[u].exists
                 => (store'[u].exists /\ store'[u].role = store[u].role)]_vars

\* C26: when the users-document lookup of a callback invocation completes
\* after the stream has delivered a later event for a different identity
\* (or for none), the completion changes nothing of the Session and issues
\* no write to the document store.
C26_StaleLookupInert ==
  [][\A i \in lis :
       (/\ i.pc = "getDoc"
        /\ i.ev < evCount /\ authUser # i.uid
        /\ i \notin lis')
         => /\ user' = user /\ userRole' = userRole /\ loading' = loading
            /\ store' = store
            /\ \A j \in lis' : j.ev = i.ev => j.pc # "setDoc"]_vars

\* C27: a post, comment or follow-up story submitted through the forms is
\* stored with status pending; an item enters a public list only when its
\* stored status is approved (published for a post); and an item is never
\* in a public list before a write of a moderation page, issued under an
\* admin or editor Session, set it approved (published).
C27_ModeratedBeforePublic ==
  /\ [](\A k \in Kinds : shown[k] => k \in moderated)
  /\ []((modCall # NoCall /\ modCall.status \in {"approved", "published"})
          => modCall.role \in ModeratorRoles)
  /\ [][\A k \in Kinds :
          /\ (content[k] = "deleted" /\ content'[k] # "deleted")
               => content'[k] = "pending"
          /\ (shown'[k] /\ ~shown[k]) => content[k] = PublicStatus(k)]_vars

\* a post has just been submitted through SubmitStoryPage (stored pending,
\* not in the blog list, no moderation write yet), while the comment a
\* moderator approved is in the post's interactive section
C27_Witness ==
  /\ route = "/dashboard"
  /\ content["post"] = "pending" /\ ~shown["post"]
  /\ "post" \notin moderated
  /\ shown["comment"] /\ content["comment"] = "approved"

\* C28: on the moderation posts page a write that sets a post published is
\* issued only by a render whose Session role is admin, and the post's
\* stored status becomes published only by such a write; under an editor
\* Session the page offers Reject and Move to Drafts, and nothing an editor
\* invokes there sets published.
C28_OnlyAdminPublishes ==
  /\ []((modCall.kind = "post" /\ modCall.status = "published")
          => modCall.role = "admin")
  /\ []((RowShown("post") /\ userRole = "editor" /\ modCall = NoCall
           /\ content["post"] = "pending")
          => /\ ENABLED StatusClick("post", "rejected")
             /\ ENABLED StatusClick("post", "draft")
             /\ ~ENABLED StatusClick("post", "published"))
  /\ [][(content'["post"] = "published" /\ content["post"] # "published")
          => (modCall.status = "published" /\ modCall.role = "admin")]_vars

\* an editor's Reject of the pending post is in flight
C28_Witness ==
  /\ modCall.op = "update" /\ modCall.kind = "post"
  /\ modCall.status = "rejected" /\ modCall.role = "editor"
  /\ userRole = "editor" /\ content["post"] = "pending"

\* C29: the author's edit page sets its post only when the Session identity
\* is the post's author; a save from it leaves the stored status draft
\* (action draft), pending (action submit on a draft or rejected post) or
\* as it was (action submit on a pending or published post); and no save
\* turns a post that is not published into a published one.
C29_AuthorEditNeverPublishes ==
  /\ [][(editPost.status = "none" /\ editPost'.status # "none")
          => (~user.isNull /\ user.uid = author)]_vars
  /\ [][EditSaveResolve
          => /\ content'["post"] \in {"draft", "pending", content["post"]}
             /\ content["post"] # "published"
                  => content'["post"] # "published"]_vars

\* C30: the toast store never holds more than TOAST_LIMIT = 1 toast; after
\* toast() the store holds exactly the new toast, open; a DISMISS_TOAST
\* leaves the ids and titles as they were and only sets open to false (on
\* the toast named, or on all when no id is given); and after every
\* dispatch each registered listener has been called with the new state.
C30_ToastLimit ==
  /\ [](Len(memoryState) <= TOAST_LIMIT)
  /\ [][count' # count
          => /\ Len(memoryState') = 1
             /\ memoryState'[1].id = count' /\ memoryState'[1].open]_vars
  /\ [][\A a \in ToastActions :
          (a.type = "DISMISS_TOAST" /\ Dispatch(a))
            => /\ Len(memoryState') = Len(memoryState)
               /\ \A i \in DOMAIN memoryState :
                    /\ memoryState'[i].id = memoryState[i].id
                    /\ memoryState'[i].title = memoryState[i].title
                    /\ memoryState'[i].open =
                         (memoryState[i].open
                            /\ a.id # NoId /\ a.id # memoryState[i].id)]_vars
  /\ [][(memoryState' # memoryState \/ count' # count
           \/ \E a \in ToastActions : Dispatch(a))
          => \A l \in listeners : seen'[l] = memoryState']_vars

\* a second toast() has replaced the first while two components listen, and
\* both hold the store's state
C30_Witness ==
  /\ count = 2 /\ Len(memoryState) = 1 /\ memoryState[1].id = 2
  /\ listeners = ListenerIds
  /\ \A l \in listeners : seen[l] = memoryState
====
